---- MODULE Spec2Model ----
(***************************************************************************)
(* Model of main.cpp: a benchmark driver that fills an array with the      *)
(* values 0..size-1 by nine methods, times each call, verifies the result  *)
(* and prints a mean per method.                                           *)
(*                                                                         *)
(* Scaling.  ARRAY_SIZE (10'000'000) and NUM_ITERATIONS (50) are too large *)
(* to enumerate: the array length is the variable `size`, drawn in Init    *)
(* from 1..MaxSize, and the iteration count NUM_ITERATIONS is scaled down. *)
(* All unsigned products of the model stay far below 2^32, so no           *)
(* arithmetic of the model wraps.  Times are whole clock ticks; a mean    *)
(* is kept as the exact fraction <<total, count>>.                         *)
(***************************************************************************)
EXTENDS Integers, Sequences, FiniteSets, TLC

\* ---------------------------------------------------------------- bounds
MaxSize == 8          \* array lengths 1..MaxSize stand for ARRAY_SIZE
MaxProcs == 3         \* omp_get_num_procs() returns 1..MaxProcs
MaxClock == 2         \* omp_get_wtime() advances at most MaxClock ticks
MaxVerifySize == 4    \* array lengths of the verification-only specification
NUM_ITERATIONS == 2   \* main.cpp:48 (50 there)

\* ------------------------------------------------------ program constants
MAX_TESTS == 9
NUM_THREADS == 4

VARIABLES
    size,       \* ARRAY_SIZE of this build
    numProcs,   \* what omp_get_num_procs() returns on this machine
    realDevice, \* default accelerator != accelerator::direct3d_ref
    pc,         \* position of main's thread
    numTests,   \* outer loop variable of main
    i,          \* inner loop variable of main
    t,          \* accumulated running time of the current method
    start,      \* timer start of the current trial
    clock,      \* omp_get_wtime()
    a,          \* the trial's array: a[n+1] is element n; <<>> when none
    out,        \* lines written to std::cout
    exitCode,   \* the process exit code once pc = "done"
    exc,        \* the exception in flight ("none" when none)
    workers,    \* tFill invocations: tasks of ppi, threads of thd
    th,         \* loop position inside thd (spawn index, then join index)
    av,         \* amp's device array; <<>> when none
    pending,    \* indices the amp kernel has still to write
    durs,       \* history: the durations timed for the current method
    nCalls,     \* history: number of calls made through pFill
    nPassed,    \* history: number of trials that passed the test of line 191
    nAlloc,     \* history: number of make_unique calls made
    written     \* history: the indices stored to in the current trial's array

vars == <<size, numProcs, realDevice, pc, numTests, i, t, start, clock, a, out,
          exitCode, exc, workers, th, av, pending, durs, nCalls, nPassed, nAlloc,
          written>>

\* ------------------------------------------------------------ the tables
fillMethodDescription ==
    << "sequential for loop    ", "std::generate          ",
       "ppl parallel_for       ", "ppl parallel_invoke    ",
       "c++17 parallel for_each", "c++ AMP                ",
       "threads                ", "openMP                 ",
       "tbb                    " >>

pFill == << "seq", "gen", "ppf", "ppi", "cpp", "amp", "thd", "opn", "itb" >>

\* The method main is running: numTests counts from 0.
Method == pFill[numTests + 1]
Description == fillMethodDescription[numTests + 1]

\* An allocation that hands back memory still holding an earlier fill.
ZeroArray_Stale(n) == [x \in 1..n |-> x - 1]

\* make_unique<unsigned[]>(n) value-initialises: n zeros.
ZeroArray(n) == [x \in 1..n |-> 0]

\* The array every method is meant to produce.
Identity(n) == [x \in 1..n |-> x - 1]

\* ------------------------------------------------------ the fill methods
\* tFill: one pass of  for (i = from; i < from + size; i++) arr[i] = i;
\* a worker is the record of one running tFill call.
Worker(from, n) == [from |-> from, size |-> n, i |-> from, done |-> FALSE]

\* tFill's loop test.
tFillMore(w) == w.i < w.from + w.size

\* A task size rounded up instead of down.
ppiSizeCeil(n) == (n + NUM_THREADS - 1) \div NUM_THREADS

\* The index ranges of ppi's four tasks.
ppiFrom(k, n) == (k * n) \div NUM_THREADS
ppiSize(n) == n \div NUM_THREADS

\* A slice start computed with the thread index counted from 1.
thdFromOneBased(k, n, numThreads) == ((k + 1) * n) \div numThreads

\* A slice size rounded up instead of down.
thdSizeCeil(n, numThreads) == (n + numThreads - 1) \div numThreads

\* The index ranges of thd's threads.
thdFrom(k, n, numThreads) == (k * n) \div numThreads
thdSize(n, numThreads) == n \div numThreads

\* seq: for (i = 0; i < size; i++) arr[i] = i;
RECURSIVE seqLoop(_, _, _)
seqLoop(arr, k, n) ==
    IF k < n THEN seqLoop([arr EXCEPT ![k + 1] = k], k + 1, n) ELSE arr
seq(arr, n) == seqLoop(arr, 0, n)

\* gen: std::generate over [arr, arr + size) with the closure { return i++; }.
RECURSIVE genLoop(_, _, _, _)
genLoop(arr, pos, counter, n) ==
    IF pos < n
    THEN genLoop([arr EXCEPT ![pos + 1] = counter], pos + 1, counter + 1, n)
    ELSE arr
gen(arr, n) == genLoop(arr, 0, 0, n)

\* ppf: parallel_for over [0, size) runs the body arr[i] = i once per index
\* and returns when every body has run.
ppf(arr, n) == [x \in DOMAIN arr |-> IF x - 1 < n THEN x - 1 ELSE arr[x]]

\* cpp: for_each(par_unseq) over the elements, each set to its offset from
\* &arr[0].
cpp(arr, n) == [x \in DOMAIN arr |-> IF x <= n THEN x - 1 ELSE arr[x]]

\* opn: #pragma omp parallel for over  for (int i = 0; i < int(size); i++),
\* with the implicit barrier at the end of the parallel region.
opn(arr, n) == [x \in DOMAIN arr |-> IF x - 1 < n THEN x - 1 ELSE arr[x]]

\* itb: tbb::parallel_for over blocked_range(0, size); each subrange r runs
\* for (i = r.begin(); i != r.end(); ++i) arr[i] = i.
itb(arr, n) == [x \in DOMAIN arr |-> IF 0 <= x - 1 /\ x - 1 < n THEN x - 1 ELSE arr[x]]

\* ------------------------------------------------------- the verification
\* std::is_sorted: no element is less than its predecessor.
is_sorted(arr, n) == \A k \in 1..(n - 1) : ~(arr[k + 1] < arr[k])

\* The test without its last-element check.
VerifyFailed_NoLast(arr, n) == ~is_sorted(arr, n) \/ arr[1] # 0

\* main's test: !is_sorted || a[0] != 0 || a[ARRAY_SIZE - 1] != ARRAY_SIZE - 1
VerifyFailed(arr, n) == ~is_sorted(arr, n) \/ arr[1] # 0 \/ arr[n] # n - 1

\* t / NUM_ITERATIONS, kept exact.
Mean(total, n) == <<total, n>>

\* Threads and tasks that have not returned from tFill.
Unfinished(ws) == SelectSeq(ws, LAMBDA w : ~w.done)

Alive == pc \notin {"done", "terminated"}

\* ------------------------------------------------------------------ Init
InitDriver ==
    /\ pc = "start"
    /\ numTests = 0 /\ i = 0 /\ t = 0 /\ start = 0 /\ clock = 0
    /\ a = <<>> /\ out = <<>> /\ exitCode = 0 /\ exc = "none"
    /\ workers = <<>> /\ th = 0 /\ av = <<>> /\ pending = {}
    /\ durs = <<>> /\ nCalls = 0 /\ nPassed = 0 /\ nAlloc = 0
    /\ written = {}

Init ==
    /\ size \in 1..MaxSize
    /\ numProcs \in 1..MaxProcs
    /\ realDevice \in BOOLEAN
    /\ InitDriver

\* --------------------------------------------------------- main's thread
Frame == UNCHANGED <<size, numProcs, realDevice>>

\* line 168: the header line.
Header ==
    /\ pc = "start"
    /\ out' = Append(out, [kind |-> "header", procs |-> numProcs,
                           iterations |-> NUM_ITERATIONS])
    /\ pc' = "outer"
    /\ UNCHANGED <<numTests, i, t, start, clock, a, exitCode, exc, workers,
                   th, av, pending, durs, nCalls, nPassed, nAlloc, written>>
    /\ Frame

\* The outer loop body without  t = 0.
StartTest_NoReset ==
    /\ pc = "outer"
    /\ numTests < MAX_TESTS
    /\ i' = 0
    /\ durs' = <<>>
    /\ pc' = "inner"
    /\ UNCHANGED <<numTests, t, start, clock, a, out, exitCode, exc,
                   workers, th, av, pending, nCalls, nPassed, nAlloc,
                   written>>
    /\ Frame

\* lines 171-176: enter the outer loop body; t = 0, i = 0.
StartTest ==
    /\ pc = "outer"
    /\ numTests < MAX_TESTS
    /\ t' = 0
    /\ i' = 0
    /\ durs' = <<>>
    /\ pc' = "inner"
    /\ UNCHANGED <<numTests, start, clock, a, out, exitCode, exc, workers,
                   th, av, pending, nCalls, nPassed, nAlloc, written>>
    /\ Frame

\* lines 171, 207: the outer loop ends; return 0.
Return0 ==
    /\ pc = "outer"
    /\ ~(numTests < MAX_TESTS)
    /\ exitCode' = 0
    /\ pc' = "done"
    /\ UNCHANGED <<numTests, i, t, start, clock, a, out, exc, workers, th,
                   av, pending, durs, nCalls, nPassed, nAlloc, written>>
    /\ Frame

\* lines 176-180: a trial begins; make_unique returns a zeroed array.
Alloc ==
    /\ pc = "inner"
    /\ i < NUM_ITERATIONS
    /\ nAlloc' = nAlloc + 1
    /\ a' = ZeroArray(size)
    /\ written' = {}
    /\ pc' = "timer"
    /\ UNCHANGED <<numTests, i, t, start, clock, out, exitCode, exc,
                   workers, th, av, pending, durs, nCalls, nPassed>>
    /\ Frame

\* line 180: make_unique throws std::bad_alloc.
AllocThrows ==
    /\ pc = "inner"
    /\ i < NUM_ITERATIONS
    /\ nAlloc' = nAlloc + 1
    /\ exc' = "bad_alloc"
    /\ pc' = "catch"
    /\ UNCHANGED <<numTests, i, t, start, clock, a, out, exitCode, workers,
                   th, av, pending, durs, nCalls, nPassed, written>>
    /\ Frame

\* A mean printed one iteration early.
Report_Early ==
    /\ pc = "inner"
    /\ ~(i < NUM_ITERATIONS - 1)
    /\ out' = Append(out, [kind |-> "mean", name |-> Description,
                           mean |-> Mean(t, NUM_ITERATIONS)])
    /\ numTests' = numTests + 1
    /\ pc' = "outer"
    /\ UNCHANGED <<i, t, start, clock, a, exitCode, exc, workers, th, av,
                   pending, durs, nCalls, nPassed, nAlloc, written>>
    /\ Frame

\* lines 176, 204, 171: the inner loop ends; print the mean; numTests++.
Report ==
    /\ pc = "inner"
    /\ ~(i < NUM_ITERATIONS)
    /\ out' = Append(out, [kind |-> "mean", name |-> Description,
                           mean |-> Mean(t, NUM_ITERATIONS)])
    /\ numTests' = numTests + 1
    /\ pc' = "outer"
    /\ UNCHANGED <<i, t, start, clock, a, exitCode, exc, workers, th, av,
                   pending, durs, nCalls, nPassed, nAlloc, written>>
    /\ Frame

\* line 183: start = omp_get_wtime().
StartTimer ==
    /\ pc = "timer"
    /\ start' = clock
    /\ pc' = "call"
    /\ UNCHANGED <<numTests, i, t, clock, a, out, exitCode, exc, workers,
                   th, av, pending, durs, nCalls, nPassed, nAlloc, written>>
    /\ Frame

\* line 185 for the methods that run to completion inside one call.
CallLibrary(m, filled) ==
    /\ pc = "call"
    /\ Method = m
    /\ a' = filled
    /\ written' = {x - 1 : x \in DOMAIN filled}
    /\ nCalls' = nCalls + 1
    /\ pc' = "stop"
    /\ UNCHANGED <<numTests, i, t, start, clock, out, exitCode, exc,
                   workers, th, av, pending, durs, nPassed, nAlloc>>
    /\ Frame

Call_seq == CallLibrary("seq", seq(a, size))
Call_gen == CallLibrary("gen", gen(a, size))
Call_ppf == CallLibrary("ppf", ppf(a, size))
Call_cpp == CallLibrary("cpp", cpp(a, size))
Call_opn == CallLibrary("opn", opn(a, size))
Call_itb == CallLibrary("itb", itb(a, size))

\* lines 81-86: parallel_invoke starts the four tFill tasks.
ppiTasks(n) == [k \in 1..NUM_THREADS |-> Worker(ppiFrom(k - 1, n), ppiSize(n))]

Call_ppi ==
    /\ pc = "call"
    /\ Method = "ppi"
    /\ workers' = ppiTasks(size)
    /\ nCalls' = nCalls + 1
    /\ pc' = "ppi_wait"
    /\ UNCHANGED <<numTests, i, t, start, clock, a, out, exitCode, exc, th,
                   av, pending, durs, nPassed, nAlloc, written>>
    /\ Frame

\* A parallel_invoke that returns without waiting for its tasks.
ppiNoWait(ws) == TRUE

\* parallel_invoke returns once each of its tasks has returned.
ppiMayReturn(ws) == \A k \in DOMAIN ws : ws[k].done

\* lines 86-87: parallel_invoke and ppi return.
ppi_return ==
    /\ pc = "ppi_wait"
    /\ ppiMayReturn(workers)
    /\ workers' = Unfinished(workers)
    /\ pc' = "stop"
    /\ UNCHANGED <<numTests, i, t, start, clock, a, out, exitCode, exc, th,
                   av, pending, durs, nCalls, nPassed, nAlloc, written>>
    /\ Frame

\* lines 116-117: thd begins with an empty vector of threads.
Call_thd ==
    /\ pc = "call"
    /\ Method = "thd"
    /\ workers' = <<>>
    /\ th' = 0
    /\ nCalls' = nCalls + 1
    /\ pc' = "thd_spawn"
    /\ UNCHANGED <<numTests, i, t, start, clock, a, out, exitCode, exc, av,
                   pending, durs, nPassed, nAlloc, written>>
    /\ Frame

\* lines 120-121: one more thread is started and pushed.
thd_spawn ==
    /\ pc = "thd_spawn"
    /\ th < numProcs
    /\ workers' = Append(workers, Worker(thdFrom(th, size, numProcs),
                                         thdSize(size, numProcs)))
    /\ th' = th + 1
    /\ UNCHANGED <<pc, numTests, i, t, start, clock, a, out, exitCode, exc,
                   av, pending, durs, nCalls, nPassed, nAlloc, written>>
    /\ Frame

\* line 121: std::thread's constructor throws std::system_error while the
\* vector is empty; the exception leaves thd and the try block, which
\* destroys the array.
thd_spawn_throws ==
    /\ pc = "thd_spawn"
    /\ th < numProcs
    /\ workers = <<>>
    /\ exc' = "system_error"
    /\ a' = <<>>
    /\ written' = {}
    /\ pc' = "catch"
    /\ UNCHANGED <<numTests, i, t, start, clock, out, exitCode, workers, th,
                   av, pending, durs, nCalls, nPassed, nAlloc>>
    /\ Frame

\* line 121: the constructor throws while the vector holds joinable threads;
\* unwinding destroys them and ~thread calls std::terminate.
thd_spawn_terminates ==
    /\ pc = "thd_spawn"
    /\ th < numProcs
    /\ workers # <<>>
    /\ exc' = "system_error"
    /\ pc' = "terminated"
    /\ UNCHANGED <<numTests, i, t, start, clock, a, out, exitCode, workers,
                   th, av, pending, durs, nCalls, nPassed, nAlloc, written>>
    /\ Frame

\* lines 120, 122: the spawn loop ends, the join loop begins.
thd_spawned ==
    /\ pc = "thd_spawn"
    /\ ~(th < numProcs)
    /\ th' = 0
    /\ pc' = "thd_join"
    /\ UNCHANGED <<numTests, i, t, start, clock, a, out, exitCode, exc,
                   workers, av, pending, durs, nCalls, nPassed, nAlloc,
                   written>>
    /\ Frame

\* A join that never returns.
joinNever(w) == FALSE

\* A join that does not wait.
joinNoWait(w) == TRUE

\* th.join() returns once the thread has returned from tFill.
joinMayReturn(w) == w.done

\* lines 122-123: join the next thread.
thd_join ==
    /\ pc = "thd_join"
    /\ th < Len(workers)
    /\ joinMayReturn(workers[th + 1])
    /\ th' = th + 1
    /\ UNCHANGED <<pc, numTests, i, t, start, clock, a, out, exitCode, exc,
                   workers, av, pending, durs, nCalls, nPassed, nAlloc,
                   written>>
    /\ Frame

\* lines 122-124: the join loop ends; thd returns.
thd_return ==
    /\ pc = "thd_join"
    /\ ~(th < Len(workers))
    /\ workers' = Unfinished(workers)
    /\ pc' = "stop"
    /\ UNCHANGED <<numTests, i, t, start, clock, a, out, exitCode, exc, th,
                   av, pending, durs, nCalls, nPassed, nAlloc, written>>
    /\ Frame

\* lines 53-57: one step of a running tFill: a write, or the return.  A
\* write outside the array is undefined: it may do nothing or end the process.
WorkerStep(k) ==
    /\ Alive
    /\ k \in DOMAIN workers
    /\ ~workers[k].done
    /\ IF tFillMore(workers[k])
       THEN /\ workers' = [workers EXCEPT ![k].i = @ + 1]
            /\ written' = written \cup {workers[k].i}
            /\ IF workers[k].i + 1 \in DOMAIN a
               THEN /\ a' = [a EXCEPT ![workers[k].i + 1] = workers[k].i]
                    /\ pc' = pc
               ELSE /\ a' = a
                    /\ pc' \in {pc, "terminated"}
       ELSE /\ workers' = [workers EXCEPT ![k].done = TRUE]
            /\ UNCHANGED <<a, pc, written>>
    /\ UNCHANGED <<numTests, i, t, start, clock, out, exitCode, exc, th, av,
                   pending, durs, nCalls, nPassed, nAlloc>>
    /\ Frame

\* amp without the test of the default accelerator.
Call_amp_NoCheck ==
    /\ pc = "call"
    /\ Method = "amp"
    /\ nCalls' = nCalls + 1
    /\ pc' = "amp_array"
    /\ UNCHANGED <<numTests, i, t, start, clock, a, out, exitCode, exc,
                   workers, th, av, pending, durs, nPassed, nAlloc,
                   written>>
    /\ Frame

\* lines 100-102, 111: amp tests the default accelerator; without a real one
\* it returns at once.
Call_amp ==
    /\ pc = "call"
    /\ Method = "amp"
    /\ nCalls' = nCalls + 1
    /\ pc' = IF realDevice THEN "amp_array" ELSE "stop"
    /\ UNCHANGED <<numTests, i, t, start, clock, a, out, exitCode, exc,
                   workers, th, av, pending, durs, nPassed, nAlloc,
                   written>>
    /\ Frame

\* line 104: the device array is built from the host array.
amp_array ==
    /\ pc = "amp_array"
    /\ av' = a
    /\ pc' = "amp_kernel"
    /\ UNCHANGED <<numTests, i, t, start, clock, a, out, exitCode, exc,
                   workers, th, pending, durs, nCalls, nPassed, nAlloc,
                   written>>
    /\ Frame

\* line 104: building the device array throws concurrency::runtime_exception.
amp_array_throws ==
    /\ pc = "amp_array"
    /\ exc' = "runtime_exception"
    /\ a' = <<>>
    /\ written' = {}
    /\ pc' = "catch"
    /\ UNCHANGED <<numTests, i, t, start, clock, out, exitCode, workers, th,
                   av, pending, durs, nCalls, nPassed, nAlloc>>
    /\ Frame

\* line 106: parallel_for_each queues the kernel over av.extent and returns.
amp_kernel ==
    /\ pc = "amp_kernel"
    /\ pending' = 0..(Len(av) - 1)
    /\ pc' = "amp_copy"
    /\ UNCHANGED <<numTests, i, t, start, clock, a, out, exitCode, exc,
                   workers, th, av, durs, nCalls, nPassed, nAlloc, written>>
    /\ Frame

\* line 106: the kernel body for one index: av[i] = i[0].
KernelStep(idx) ==
    /\ Alive
    /\ idx \in pending
    /\ av' = [av EXCEPT ![idx + 1] = idx]
    /\ pending' = pending \ {idx}
    /\ UNCHANGED <<pc, numTests, i, t, start, clock, a, out, exitCode, exc,
                   workers, th, durs, nCalls, nPassed, nAlloc, written>>
    /\ Frame

\* concurrency::copy is queued behind the kernel on the same accelerator
\* view: it copies once the kernel has finished.
copyMayRun(p) == p = {}

\* lines 109-111: copy the device array back; av is destroyed; amp returns.
amp_copy ==
    /\ pc = "amp_copy"
    /\ copyMayRun(pending)
    /\ a' = av
    /\ written' = {x - 1 : x \in DOMAIN av}
    /\ av' = <<>>
    /\ pc' = "stop"
    /\ UNCHANGED <<numTests, i, t, start, clock, out, exitCode, exc,
                   workers, th, pending, durs, nCalls, nPassed, nAlloc>>
    /\ Frame

\* line 188: t += omp_get_wtime() - start.
StopTimer ==
    /\ pc = "stop"
    /\ t' = t + (clock - start)
    /\ durs' = Append(durs, clock - start)
    /\ pc' = "verify"
    /\ UNCHANGED <<numTests, i, start, clock, a, out, exitCode, exc,
                   workers, th, av, pending, nCalls, nPassed, nAlloc,
                   written>>
    /\ Frame

\* A failed test that prints its line and goes on.
VerifyFail_Continues ==
    /\ pc = "verify"
    /\ VerifyFailed(a, size)
    /\ out' = Append(out, [kind |-> "failed", name |-> Description])
    /\ pc' = "release"
    /\ UNCHANGED <<numTests, i, t, start, clock, a, exitCode, exc, workers,
                   th, av, pending, durs, nCalls, nPassed, nAlloc, written>>
    /\ Frame

\* A failed test that ends the process with exit(0).
VerifyFail_ExitsZero ==
    /\ pc = "verify"
    /\ VerifyFailed(a, size)
    /\ out' = Append(out, [kind |-> "failed", name |-> Description])
    /\ exitCode' = 0
    /\ pc' = "done"
    /\ UNCHANGED <<numTests, i, t, start, clock, a, exc, workers, th, av,
                   pending, durs, nCalls, nPassed, nAlloc, written>>
    /\ Frame

\* lines 191-195: the test fails; print "<name> failed!" and exit(-1).
VerifyFail ==
    /\ pc = "verify"
    /\ VerifyFailed(a, size)
    /\ out' = Append(out, [kind |-> "failed", name |-> Description])
    /\ exitCode' = -1
    /\ pc' = "done"
    /\ UNCHANGED <<numTests, i, t, start, clock, a, exc, workers, th, av,
                   pending, durs, nCalls, nPassed, nAlloc, written>>
    /\ Frame

\* line 191: the test passes.
VerifyPass ==
    /\ pc = "verify"
    /\ ~VerifyFailed(a, size)
    /\ nPassed' = nPassed + 1
    /\ pc' = "release"
    /\ UNCHANGED <<numTests, i, t, start, clock, a, out, exitCode, exc,
                   workers, th, av, pending, durs, nCalls, nAlloc, written>>
    /\ Frame

\* An end of trial that leaves the array allocated.
Release_KeepsArray ==
    /\ pc = "release"
    /\ i' = i + 1
    /\ pc' = "inner"
    /\ UNCHANGED <<numTests, t, start, clock, a, out, exitCode, exc,
                   workers, th, av, pending, durs, nCalls, nPassed, nAlloc,
                   written>>
    /\ Frame

\* lines 196, 176: the try block ends, the array is freed; i++.
Release ==
    /\ pc = "release"
    /\ a' = <<>>
    /\ written' = {}
    /\ i' = i + 1
    /\ pc' = "inner"
    /\ UNCHANGED <<numTests, t, start, clock, out, exitCode, exc, workers,
                   th, av, pending, durs, nCalls, nPassed, nAlloc>>
    /\ Frame

\* A handler that prints and lets the inner loop try the trial again.
Catch_Retries ==
    /\ pc = "catch"
    /\ out' = Append(out, [kind |-> "exception", what |-> exc])
    /\ pc' = "inner"
    /\ UNCHANGED <<numTests, i, t, start, clock, a, exitCode, exc, workers,
                   th, av, pending, durs, nCalls, nPassed, nAlloc, written>>
    /\ Frame

\* lines 197-201: print the exception's what() and exit(-1).
Catch ==
    /\ pc = "catch"
    /\ out' = Append(out, [kind |-> "exception", what |-> exc])
    /\ exitCode' = -1
    /\ pc' = "done"
    /\ UNCHANGED <<numTests, i, t, start, clock, a, exc, workers, th, av,
                   pending, durs, nCalls, nPassed, nAlloc, written>>
    /\ Frame

\* omp_get_wtime() advances while the process runs.
Tick ==
    /\ Alive
    /\ clock < MaxClock
    /\ clock' = clock + 1
    /\ UNCHANGED <<pc, numTests, i, t, start, a, out, exitCode, exc,
                   workers, th, av, pending, durs, nCalls, nPassed, nAlloc,
                   written>>
    /\ Frame

Worker_step == \E k \in 1..(MaxProcs + NUM_THREADS) : WorkerStep(k)
Kernel_step == \E idx \in 0..MaxSize : KernelStep(idx)

Next ==
    \/ Header \/ StartTest \/ Return0 \/ Alloc \/ AllocThrows \/ Report
    \/ StartTimer
    \/ Call_seq \/ Call_gen \/ Call_ppf \/ Call_ppi \/ Call_cpp \/ Call_amp
    \/ Call_thd \/ Call_opn \/ Call_itb
    \/ ppi_return
    \/ thd_spawn \/ thd_spawn_throws \/ thd_spawn_terminates \/ thd_spawned
    \/ thd_join \/ thd_return
    \/ Worker_step
    \/ amp_array \/ amp_array_throws \/ amp_kernel \/ Kernel_step \/ amp_copy
    \/ StopTimer \/ VerifyFail \/ VerifyPass \/ Release \/ Catch
    \/ Tick

Spec == Init /\ [][Next]_vars

\* Steps of main's thread, which the scheduler runs whenever it can run.
MainStep ==
    \/ Header \/ StartTest \/ Return0 \/ Alloc \/ AllocThrows \/ Report
    \/ StartTimer
    \/ Call_seq \/ Call_gen \/ Call_ppf \/ Call_ppi \/ Call_cpp \/ Call_amp
    \/ Call_thd \/ Call_opn \/ Call_itb
    \/ ppi_return
    \/ thd_spawn \/ thd_spawn_throws \/ thd_spawn_terminates \/ thd_spawned
    \/ thd_join \/ thd_return
    \/ amp_array \/ amp_array_throws \/ amp_kernel \/ amp_copy
    \/ StopTimer \/ VerifyFail \/ VerifyPass \/ Release \/ Catch

\* omp_get_wtime() counts from an arbitrary origin: here the process starts
\* one tick before the clock's bound.
InitLate ==
    /\ size \in 1..MaxSize
    /\ numProcs \in 1..MaxProcs
    /\ realDevice \in BOOLEAN
    /\ pc = "start"
    /\ numTests = 0 /\ i = 0 /\ t = 0 /\ start = 0 /\ clock = MaxClock - 1
    /\ a = <<>> /\ out = <<>> /\ exitCode = 0 /\ exc = "none"
    /\ workers = <<>> /\ th = 0 /\ av = <<>> /\ pending = {}
    /\ durs = <<>> /\ nCalls = 0 /\ nPassed = 0 /\ nAlloc = 0
    /\ written = {}

\* Fair scheduling: main's thread, every tFill worker and the kernel each
\* take a step if they stay able to.
SpecFair ==
    /\ InitLate
    /\ [][Next]_vars
    /\ WF_vars(MainStep)
    /\ \A k \in 1..(MaxProcs + NUM_THREADS) : WF_vars(WorkerStep(k))
    /\ WF_vars(Kernel_step)

\* ------------------------------------------- specifications over inputs
\* What main has printed when it enters the outer loop body for method n,
\* every earlier trial having taken no measurable time.
OutBefore(n) ==
    <<[kind |-> "header", procs |-> numProcs, iterations |-> NUM_ITERATIONS]>>
    \o [k \in 1..n |-> [kind |-> "mean", name |-> fillMethodDescription[k],
                        mean |-> Mean(0, NUM_ITERATIONS)]]

\* The test of line 191 as a function of the array: besides the program's
\* own runs, main stands at line 191 of its first trial with an array of any
\* content over 0..size.
AtVerifier ==
    /\ size \in 1..MaxVerifySize
    /\ numProcs \in 1..MaxProcs
    /\ realDevice \in BOOLEAN
    /\ a \in [1..size -> 0..size]
    /\ pc = "verify"
    /\ numTests = 0 /\ i = 0 /\ t = 0 /\ start = 0 /\ clock = 0
    /\ out = OutBefore(0) /\ exitCode = 0 /\ exc = "none"
    /\ workers = <<>> /\ th = 0 /\ av = <<>> /\ pending = {}
    /\ durs = <<0>> /\ nCalls = 1 /\ nPassed = 0 /\ nAlloc = 1
    /\ written = 0..(size - 1)

InitVerifier == Init \/ AtVerifier

SpecVerifier == InitVerifier /\ [][Next]_vars

\* The partitioned methods as functions of size and processor count: besides
\* the program's own runs, main stands at the top of the outer loop for ppi
\* or for thd, whatever the size.
PartitionedTests == {n \in 0..(MAX_TESTS - 1) : pFill[n + 1] \in {"ppi", "thd"}}

AtPartitioned ==
    /\ size \in 1..MaxSize
    /\ numProcs \in 1..MaxProcs
    /\ realDevice \in BOOLEAN
    /\ numTests \in PartitionedTests
    /\ pc = "outer"
    /\ i = NUM_ITERATIONS /\ t = 0 /\ start = 0 /\ clock = 0
    /\ a = <<>> /\ out = OutBefore(numTests) /\ exitCode = 0 /\ exc = "none"
    /\ workers = <<>> /\ th = 0 /\ av = <<>> /\ pending = {}
    /\ durs = [k \in 1..NUM_ITERATIONS |-> 0]
    /\ nCalls = numTests * NUM_ITERATIONS
    /\ nPassed = numTests * NUM_ITERATIONS
    /\ nAlloc = numTests * NUM_ITERATIONS
    /\ written = {}

InitPartition == Init \/ AtPartitioned

SpecPartition == InitPartition /\ [][Next]_vars

\* ----------------------------------------------------------- properties
RECURSIVE SumSeq(_)
SumSeq(q) == IF q = <<>> THEN 0 ELSE Head(q) + SumSeq(Tail(q))

MeanLines == SelectSeq(out, LAMBDA l : l.kind = "mean")
FailedLines == SelectSeq(out, LAMBDA l : l.kind = "failed")

\* The number of trials begun before the current one.
TrialIndex == numTests * NUM_ITERATIONS + i

\* The mean lines are those of the first n methods, in table order.
ReportsAreFirst(n) ==
    /\ Len(MeanLines) = n
    /\ \A k \in 1..n : MeanLines[k].name = fillMethodDescription[k]

\* main's thread is inside a call made through pFill.
InCall ==
    pc \in {"ppi_wait", "thd_spawn", "thd_join", "amp_array", "amp_kernel",
            "amp_copy"}

AmpIndex == CHOOSE n \in 1..MAX_TESTS : pFill[n] = "amp"

\* C1: whenever a call through pFill has returned, whatever the method, the
\* size and the processor count, element n of the array holds n for every n.
C1_FillComplete == pc = "stop" => a = Identity(size)

\* C2: the test of line 191 passes exactly when the array holds n at every
\* index n: an array that passed is the identity, and an array that failed
\* is not.
C2_PassIffIdentity ==
    /\ pc = "release" => a = Identity(size)
    /\ (pc = "done" /\ FailedLines # <<>>) => a # Identity(size)

\* The three arrays of C3.
AllZero(arr) == \A x \in DOMAIN arr : arr[x] = 0
MissingLast(arr) ==
    \A x \in DOMAIN arr : arr[x] = IF x = Len(arr) THEN 0 ELSE x - 1
SwappedAt(arr, k) ==
    \A x \in DOMAIN arr :
        arr[x] = IF x = k THEN k ELSE IF x = k + 1 THEN k - 1 ELSE x - 1
AdjacentSwap(arr) == \E k \in 1..(Len(arr) - 1) : SwappedAt(arr, k)

\* C3: for a size of at least 2, no array that is all zero, or correct but
\* for a zero last element, or correct but for one swapped adjacent pair,
\* passes the test of line 191.
C3_RejectsBrokenArrays ==
    (size >= 2 /\ a # <<>> /\ (AllZero(a) \/ MissingLast(a) \/ AdjacentSwap(a)))
        => pc # "release"

C3_Witness ==
    /\ pc = "done"
    /\ size >= 3
    /\ FailedLines # <<>>
    /\ SwappedAt(a, 2)

\* C4: a trial that fails the test ends the run: a "failed!" line is the last
\* line printed and names the method under test, the process has exited with
\* a non-zero code, no trial was begun after the failing one, the mean lines
\* are exactly those of the methods before the failing one, and no array that
\* fails the test ever reaches the end of its trial.
C4_AbortOnFirstFailure ==
    /\ pc = "release" => ~VerifyFailed(a, size)
    /\ \A k \in DOMAIN out :
          out[k].kind = "failed" =>
              /\ pc = "done"
              /\ exitCode # 0
              /\ k = Len(out)
              /\ out[k].name = Description
              /\ ReportsAreFirst(numTests)
              /\ nAlloc = TrialIndex + 1
              /\ nCalls = TrialIndex + 1

C4_Witness ==
    /\ pc = "done"
    /\ FailedLines # <<>>
    /\ Method = "thd"
    /\ i = 0
    /\ Len(MeanLines) = numTests

\* C5: each mean line is printed after exactly NUM_ITERATIONS timed trials of
\* its method and carries the sum of exactly those durations over
\* NUM_ITERATIONS; a run that returns 0 has printed exactly one mean line per
\* method, in table order.
C5_MeanOfOwnTrials ==
    /\ (pc = "outer" /\ numTests > 0) =>
          /\ Len(durs) = NUM_ITERATIONS
          /\ out[Len(out)] = [kind |-> "mean",
                              name |-> fillMethodDescription[numTests],
                              mean |-> Mean(SumSeq(durs), NUM_ITERATIONS)]
    /\ (pc = "done" /\ exitCode = 0) =>
          /\ ReportsAreFirst(MAX_TESTS)
          /\ Len(out) = MAX_TESTS + 1

C5_Witness ==
    /\ pc = "done"
    /\ exitCode = 0
    /\ Len(MeanLines) = MAX_TESTS
    /\ MeanLines[1].mean # MeanLines[2].mean
    /\ MeanLines[2].mean[1] > 0

\* C6: whenever main's thread is outside a call through pFill, every tFill
\* task or thread that a call started has returned, no kernel index is
\* outstanding and no device array is left: the test of line 191 never
\* reads an array that a worker can still write.
C6_CallIsBarrier ==
    (~InCall /\ pc # "terminated") =>
        /\ Unfinished(workers) = <<>>
        /\ pending = {}
        /\ av = <<>>

C6_Witness ==
    /\ pc = "verify"
    /\ Method = "thd"
    /\ numProcs >= 2
    /\ size >= 4
    /\ a = Identity(size)

\* C7: the index ranges [from, from + size) of the tFill workers of one call
\* are pairwise disjoint, and each worker's next index stays within its range.
C7_DisjointRanges ==
    /\ \A j, k \in DOMAIN workers :
          j # k =>
              \/ workers[j].from + workers[j].size <= workers[k].from
              \/ workers[k].from + workers[k].size <= workers[j].from
    /\ \A k \in DOMAIN workers :
          /\ workers[k].from <= workers[k].i
          /\ workers[k].i <= workers[k].from + workers[k].size

C7_Witness ==
    /\ pc = "thd_join"
    /\ Len(workers) >= 2
    /\ workers[1].size >= 2
    /\ size % numProcs # 0
    /\ \A k \in DOMAIN workers : workers[k].done

\* C8: without a real compute device the run never prints a "failed!" line
\* for amp.
C8_NoDeviceNoFailure ==
    ~realDevice =>
        \A k \in DOMAIN out :
            out[k].kind = "failed" => out[k].name # fillMethodDescription[AmpIndex]

\* C9: a finished process has exit code 0 exactly when all
\* MAX_TESTS * NUM_ITERATIONS trials were called and passed; once a test has
\* failed or an exception is in flight, the process is in its handler or has
\* ended, with a non-zero code if it exited, every earlier trial passed, and
\* no later trial was begun.
C9_ExitCode ==
    /\ pc = "done" =>
          (exitCode = 0 <=> (/\ nCalls = MAX_TESTS * NUM_ITERATIONS
                             /\ nPassed = nCalls))
    /\ (exc # "none" \/ FailedLines # <<>>) =>
          /\ pc \in {"catch", "done", "terminated"}
          /\ pc = "done" => exitCode # 0
          /\ nAlloc = TrialIndex + 1
          /\ nPassed = TrialIndex

C9_Witness ==
    /\ pc = "done"
    /\ exitCode = 0
    /\ nPassed = MAX_TESTS * NUM_ITERATIONS
    /\ clock > 0

\* C10: when make_unique throws, the method is not called for that trial,
\* the allocation is not made again, no array exists, no mean line is printed
\* for the current method, and the process exits with a non-zero code after
\* printing the exception.
C10_AllocFailure ==
    exc = "bad_alloc" =>
        /\ pc \in {"catch", "done"}
        /\ nCalls = TrialIndex
        /\ nAlloc = TrialIndex + 1
        /\ a = <<>>
        /\ ReportsAreFirst(numTests)
        /\ pc = "done" =>
              /\ exitCode # 0
              /\ out[Len(out)] = [kind |-> "exception", what |-> "bad_alloc"]

C10_Witness ==
    /\ pc = "done"
    /\ exc = "bad_alloc"
    /\ numTests >= 1
    /\ i >= 1

\* The partitioned methods and their worker counts.
Partitioned == Method \in {"ppi", "thd"}
W == IF Method = "ppi" THEN NUM_THREADS ELSE numProcs
Unwritten == (0..(size - 1)) \ written

\* C11: main runs one trial at a time: at most one call through pFill is
\* unfinished, at most one array is allocated beyond the calls made, no array
\* is live between trials, and when a trial allocates its array or starts its
\* method no tFill worker, kernel index or device array of an earlier trial
\* is left.
C11_StrictlySequential ==
    /\ nCalls - nPassed \in {0, 1}
    /\ nAlloc - nCalls \in {0, 1}
    /\ pc \in {"outer", "inner"} => a = <<>>
    /\ pc \in {"outer", "inner", "timer", "call"} =>
          /\ Unfinished(workers) = <<>>
          /\ pending = {}
          /\ av = <<>>
    /\ InCall => (a # <<>> /\ nCalls = TrialIndex + 1)

C11_Witness ==
    /\ pc = "call"
    /\ Method = "opn"
    /\ i = 1
    /\ numProcs >= 2
    /\ size >= NUM_THREADS

\* C12 as stated: when W does not divide size, the indices that ppi and thd
\* leave unwritten are exactly the suffix W * (size / W) .. size - 1.
C12_UnwrittenIsSuffix ==
    (pc = "stop" /\ Partitioned /\ size % W # 0) =>
        Unwritten = (W * (size \div W))..(size - 1)

\* C12 as amended: ppi and thd leave exactly size mod W indices unwritten;
\* when W does not divide size the last index is one of them, and the
\* others need not be adjacent to it.
C12_UnwrittenCount ==
    (pc = "stop" /\ Partitioned) =>
        /\ Cardinality(Unwritten) = size % W
        /\ size % W # 0 => (size - 1) \in Unwritten

C12_Witness ==
    /\ pc = "stop"
    /\ Method = "ppi"
    /\ Cardinality(Unwritten) = 2
    /\ Unwritten # (W * (size \div W))..(size - 1)

\* The array filled correctly except that indices lo .. hi - 1 were left 0.
SkippedFill(arr, lo, hi) ==
    \A x \in DOMAIN arr :
        arr[x] = IF lo <= x - 1 /\ x - 1 < hi THEN 0 ELSE x - 1

\* C13: an array filled correctly but for one skipped non-empty index range
\* never passes the test of line 191, unless the range is index 0 alone.
C13_SkippedRangeCaught ==
    \A lo \in 0..(size - 1) : \A hi \in (lo + 1)..size :
        (a # <<>> /\ SkippedFill(a, lo, hi) /\ ~(lo = 0 /\ hi = 1))
            => pc # "release"

\* C14: without a real compute device a call of amp stores to no element:
\* the array is as make_unique left it when the call has returned, and no
\* device array or kernel was made.
C14_AmpNoDeviceNoOp ==
    (pc \in {"stop", "verify"} /\ Method = "amp" /\ ~realDevice) =>
        /\ written = {}
        /\ Len(a) = size
        /\ AllZero(a)
        /\ av = <<>>
        /\ pending = {}

C14_Witness ==
    /\ pc = "stop"
    /\ Method = "amp"
    /\ ~realDevice
    /\ size >= 2
    /\ clock > start

\* C15: the mean lines printed so far are those of the methods before the
\* current one, in table order; each was printed after all NUM_ITERATIONS
\* trials of its method had passed and before any trial of the next method
\* was begun.
C15_ReportOrder ==
    /\ ReportsAreFirst(numTests)
    /\ nPassed >= Len(MeanLines) * NUM_ITERATIONS
    /\ nAlloc <= (Len(MeanLines) + 1) * NUM_ITERATIONS
    /\ pc = "outer" => nAlloc = Len(MeanLines) * NUM_ITERATIONS

C15_Witness ==
    /\ pc = "timer"
    /\ i = 0
    /\ Method = "cpp"
    /\ Len(MeanLines) = numTests
    /\ nPassed = numTests * NUM_ITERATIONS

Ended == pc \in {"done", "terminated"}

\* C16: under fair scheduling every run ends, by return 0, exit(-1) or
\* std::terminate, and every wait of ppi for its tasks and every join loop
\* of thd is followed by the return of the call.
C16_Terminates ==
    /\ <>Ended
    /\ (pc \in {"ppi_wait", "thd_join"}) ~> (pc = "stop")

C16_Witness ==
    /\ pc = "done"
    /\ exitCode = 0
    /\ numProcs > 1
    /\ size >= NUM_THREADS
    /\ clock = MaxClock

\* C17: every index a tFill worker of ppi or thd stores to lies in
\* 0 .. size - 1, and so does every worker's whole range, whatever the size
\* and the processor count (more workers than elements included).
C17_WritesInBounds ==
    /\ written \subseteq 0..(size - 1)
    /\ \A k \in DOMAIN workers :
          /\ 0 <= workers[k].from
          /\ workers[k].from + workers[k].size <= size

C17_Witness ==
    /\ pc = "stop"
    /\ Method = "thd"
    /\ numProcs > NUM_THREADS - 2
    /\ size % numProcs # 0
    /\ Cardinality(written) >= NUM_THREADS

\* C18: on the zeroed array of a trial with size >= 2, ppi and thd pass the
\* test of line 191 exactly when W divides size; otherwise the last index
\* is never stored to, the test fails, and the process exits non-zero.
C18_PassIffDivides ==
    (pc \in {"verify", "release", "done"} /\ numTests < MAX_TESTS
     /\ Partitioned /\ size >= 2 /\ a # <<>>) =>
        /\ pc = "verify" => (VerifyFailed(a, size) <=> size % W # 0)
        /\ pc = "release" => size % W = 0
        /\ (pc = "done" /\ exc = "none") =>
              /\ size % W # 0
              /\ (size - 1) \notin written
              /\ exitCode # 0
              /\ FailedLines # <<>>

C18_Witness ==
    /\ pc = "done"
    /\ FailedLines # <<>>
    /\ Method = "thd"
    /\ size % NUM_THREADS # 0
    /\ size % numProcs # 0
    /\ size > numProcs

\* The array that ppi or thd leaves behind, as a function of size and worker
\* count alone: index x holds x if some worker's range holds x, else 0.
InSomeRange(x, n, w) ==
    \E k \in 0..(w - 1) :
        /\ (k * n) \div w <= x
        /\ x < (k * n) \div w + n \div w
PartitionResult(n, w) == [x \in 1..n |-> IF InSomeRange(x - 1, n, w) THEN x - 1 ELSE 0]

\* C19: when a call of ppi or thd has returned, the array is a function of
\* size and worker count alone: no order of thread starts, stores and joins
\* yields another array.
C19_ScheduleIndependent ==
    (pc \in {"stop", "verify"} /\ Partitioned) => a = PartitionResult(size, W)

C19_Witness ==
    /\ pc = "verify"
    /\ Method = "ppi"
    /\ size >= 2 * NUM_THREADS
    /\ a = PartitionResult(size, W)
    /\ clock > start

\* C20: when a method is about to be called its array has size elements,
\* all 0, and nothing stored to; and for size >= 2 no trial passes the test
\* of line 191 without a store to its array.
C20_FreshZeroArray ==
    /\ pc \in {"timer", "call"} =>
          /\ Len(a) = size
          /\ AllZero(a)
          /\ written = {}
    /\ (pc = "release" /\ size >= 2) => written # {}

C20_Witness ==
    /\ pc = "call"
    /\ Method = "gen"
    /\ i > 0
    /\ nPassed > NUM_ITERATIONS
    /\ AllZero(a)
    /\ size >= 2
====
